---- MODULE Spec2Model ----
(***************************************************************************)
(* Model of the filesystem-convention route compiler, detectApiRoutes, and *)
(* of the helpers it is built from (src/unnamed/part_000).                 *)
(*                                                                         *)
(* A string is modelled as the sequence of its characters, a path as the   *)
(* sequence of its "/"-separated segments (what filePath.split('/')        *)
(* returns).  A value of type `string | null` is <<>> for null and <<s>>   *)
(* for the string s, so that the empty string and null stay different, as  *)
(* they are in the code.                                                   *)
(***************************************************************************)
EXTENDS Integers, Sequences, FiniteSets

\* Most path segments in one input list, all its files taken together.
MaxSegments == 6

\* files          the array handed to detectApiRoutes (sorted in place)
\* pc             "start" before the call, "done" once it has returned
\* defaultRoutes  the local list of routes, as it is at the return
\* result         the value returned, once pc = "done"
\* input, compiled are history variables: the array as it was handed over,
\* and the file each element of defaultRoutes was made from
VARIABLES files, pc, defaultRoutes, result, input, compiled

vars == <<files, pc, defaultRoutes, result, input, compiled>>

----------------------------------------------------------------------------
\* null and non-null values of a nullable type
Null == <<>>

Some(v) == <<v>>

\* JavaScript truthiness of a `string | null`: null and "" are falsy
Truthy(o) == o # Null /\ o[1] # <<>>

Max(S) == CHOOSE x \in S : \A y \in S : y <= x

RECURSIVE Join(_, _)
\* Array.prototype.join
Join(texts, sep) ==
  IF texts = <<>> THEN <<>>
  ELSE IF Len(texts) = 1 THEN texts[1]
  ELSE texts[1] \o sep \o Join(Tail(texts), sep)

Digit(d) == <<"0", "1", "2", "3", "4", "5", "6", "7", "8", "9">>[d + 1]

RECURSIVE NumberText(_)
\* `${counter}`: the decimal digits of a positive number
NumberText(n) ==
  IF n < 10 THEN <<Digit(n)>> ELSE NumberText(n \div 10) \o <<Digit(n % 10)>>

----------------------------------------------------------------------------
\* The candidate paths the input lists are drawn from.

Api == <<"a", "p", "i">>

Lib == <<"l", "i", "b">>

DirPool ==
  { <<"u", "s", "e", "r", "s">>,
    <<"(", "x", ")">>,
    <<"[", "i", "d", "]">>,
    <<"[", "i", "d", "]", ".", "v", "1">>,
    <<"[", "]">> }

FilePool ==
  { <<"m", "e", ".", "j", "s">>,
    <<"1", ".", "j", "s">>,
    <<"[", "i", "d", "]", ".", "j", "s">>,
    <<"[", "u", "s", "e", "r", "]", ".", "j", "s">>,
    <<"[", "]", ".", "j", "s">> }

\* the candidate paths of n segments: under api/, any directories and a
\* file; outside it, a file of the root directory and a file of lib/
PathsOfLen(n) ==
  IF n = 1 THEN { << <<"m", "e", ".", "j", "s">> >> }
  ELSE { <<Api>> \o d \o <<f>> : d \in [1..(n - 2) -> DirPool], f \in FilePool }
         \cup (IF n = 2 THEN { << Lib, <<"[", "i", "d", "]", ".", "j", "s">> >> }
               ELSE {})

RECURSIVE ListsWithin(_)
\* the lists of candidate paths with at most `budget` segments in all
ListsWithin(budget) ==
  {<<>>} \cup
    UNION { { <<p>> \o rest : p \in PathsOfLen(n), rest \in ListsWithin(budget - n) } :
            n \in 1..budget }

Inputs == ListsWithin(MaxSegments)

----------------------------------------------------------------------------
\* path.parse(segment).name for a text without "/": the text without its
\* extension; the extension starts at the last ".", unless that is the first
\* character or the text is ".."
ParseName(segment) ==
  LET dots == { i \in 1..Len(segment) : segment[i] = "." }
      d == IF dots = {} THEN 0 ELSE Max(dots)
  IN  IF d <= 1 \/ segment = <<".", ".">> THEN segment
      ELSE SubSeq(segment, 1, d - 1)

getSegmentName(segment) ==
  LET name == ParseName(segment)
  IN  IF Len(name) >= 1 /\ name[1] = "[" /\ name[Len(name)] = "]"
      THEN Some(SubSeq(name, 2, Len(name) - 1))
      ELSE Null

----------------------------------------------------------------------------
\* createRouteFromPath

\* `([^\/]+)`
PlaceholderFragment == <<"(", "[", "^", "\\", "/", "]", "+", ")">>

\* `([^\/|\?]+)\/?(?:\?(.*))?`
LastPlaceholderFragment ==
  <<"(", "[", "^", "\\", "/", "|", "\\", "?", "]", "+", ")",
    "\\", "/", "?", "(", "?", ":", "\\", "?", "(", ".", "*", ")", ")", "?">>

\* `(.*)`
RestFragment == <<"(", ".", "*", ")">>

\* `$${counter}`
Ref(counter) == <<"$">> \o NumberText(counter)

\* the callback of parts.map, with the variables it closes over
RouteStep(parts, i, acc) ==
  LET segment == parts[i]
      name == getSegmentName(segment)
      isLast == i = Len(parts)
  IN  IF name # Null
      THEN LET q == Append(acc.query, name[1] \o <<"=">> \o Ref(acc.counter))
           IN  IF isLast
               THEN [counter |-> acc.counter + 2,
                     query |-> q,
                     append |-> acc.append \o Ref(acc.counter + 1),
                     srcParts |-> Append(acc.srcParts, LastPlaceholderFragment)]
               ELSE [counter |-> acc.counter + 1,
                     query |-> q,
                     append |-> acc.append,
                     srcParts |-> Append(acc.srcParts, PlaceholderFragment)]
      ELSE IF isLast
           THEN [counter |-> acc.counter + 1,
                 query |-> acc.query,
                 append |-> acc.append \o Ref(acc.counter),
                 srcParts |-> Append(acc.srcParts,
                                     ParseName(segment) \o RestFragment)]
           ELSE [acc EXCEPT !.srcParts = Append(@, segment)]

RECURSIVE RouteFold(_, _, _)
RouteFold(parts, i, acc) ==
  IF i > Len(parts) THEN acc
  ELSE RouteFold(parts, i + 1, RouteStep(parts, i, acc))

SrcOf(srcParts) == <<"^", "/">> \o Join(srcParts, <<"/">>) \o <<"$">>

\* the destination with nothing between the query and the appended reference
DestOf_NoSeparator(filePath, query, append) ==
  <<"/">> \o Join(filePath, <<"/">>)
    \o (IF query # <<>> THEN <<"?">> ELSE <<>>)
    \o Join(query, <<"&">>)
    \o append

DestOf(filePath, query, append) ==
  <<"/">> \o Join(filePath, <<"/">>)
    \o (IF query # <<>> THEN <<"?">> ELSE <<>>)
    \o Join(query, <<"&">>)
    \o (IF query # <<>> THEN <<"&">> ELSE <<>>)
    \o append

createRouteFromPath(filePath) ==
  LET acc == RouteFold(filePath, 1,
                       [counter |-> 1, query |-> <<>>, append |-> <<>>,
                        srcParts |-> <<>>])
  IN  [src |-> SrcOf(acc.srcParts),
       dest |-> DestOf(filePath, acc.query, acc.append)]

----------------------------------------------------------------------------
\* partiallyMatches

RECURSIVE MatchFrom(_, _, _)
\* the for loop over `short`, from position i
MatchFrom(short, long, i) ==
  IF i > Len(short) THEN FALSE
  ELSE LET segmentShort == short[i]
           segmentLong == long[i]
           nameLong == getSegmentName(segmentLong)
           nameShort == getSegmentName(segmentShort)
       IN  IF segmentShort # segmentLong
              /\ (~Truthy(nameLong) \/ ~Truthy(nameShort))
           THEN FALSE
           ELSE IF nameLong # nameShort THEN TRUE
           ELSE MatchFrom(short, long, i + 1)

\* pathA always taken as the long one
partiallyMatches_LongFirst(pathA, pathB) ==
  IF Len(pathA) >= Len(pathB) THEN MatchFrom(pathB, pathA, 1) ELSE FALSE

partiallyMatches(pathA, pathB) ==
  LET long == IF Len(pathA) > Len(pathB) THEN pathA ELSE pathB
      short == IF Len(pathA) > Len(pathB) THEN pathB ELSE pathA
  IN  MatchFrom(short, long, 1)

----------------------------------------------------------------------------
\* pathOccurrences

\* part.replace(/\[.*\]/, '1'): the text from the first "[" to the last "]"
\* after it becomes "1"
ReplaceBrackets(part) ==
  LET opens == { i \in 1..Len(part) : part[i] = "[" }
      closes == { i \in 1..Len(part) : part[i] = "]" }
  IN  IF opens = {} \/ closes = {} THEN part
      ELSE LET first == CHOOSE i \in opens : \A j \in opens : i <= j
               last == Max(closes)
           IN  IF last < first THEN part
               ELSE SubSeq(part, 1, first - 1) \o <<"1">>
                      \o SubSeq(part, last + 1, Len(part))

\* getAbsolutePath, on a path that path.join leaves as it is (no empty, "."
\* or ".." segment): the extension of the last segment goes, and every part
\* has its brackets replaced
getAbsolutePath(unresolvedPath) ==
  LET n == Len(unresolvedPath)
      parts == [i \in 1..n |->
                  IF i = n THEN ParseName(unresolvedPath[i])
                  ELSE unresolvedPath[i]]
  IN  [i \in 1..n |-> ReplaceBrackets(parts[i])]

pathOccurrences(filePath, fs) ==
  LET currentAbsolutePath == getAbsolutePath(filePath)
      Occurs(file) ==
        \/ getAbsolutePath(file) = currentAbsolutePath
        \/ partiallyMatches(filePath, file)
  IN  SelectSeq(fs, Occurs)

----------------------------------------------------------------------------
\* getConflictingSegment

RECURSIVE ConflictFrom(_, _, _)
\* the for loop over the segments, from position i, with the names seen
ConflictFrom(parts, i, segments) ==
  IF i > Len(parts) THEN Null
  ELSE LET name == getSegmentName(parts[i])
       IN  IF name # Null /\ name[1] \in segments THEN name
           ELSE ConflictFrom(parts, i + 1,
                             IF Truthy(name) THEN segments \cup {name[1]}
                             ELSE segments)

getConflictingSegment(filePath) == ConflictFrom(filePath, 1, {})

----------------------------------------------------------------------------
\* sortFilesBySegmentCount

RECURSIVE Reduce(_, _, _)
\* fileA.split('/').reduce(countSegments, 0)
Reduce(parts, i, prev) ==
  IF i > Len(parts) THEN prev
  ELSE Reduce(parts, i + 1,
              IF Truthy(getSegmentName(parts[i])) THEN prev + 1 ELSE 0)

countSegments(file) == Reduce(file, 1, 0)

\* the comparison with the shallower path first
sortFilesBySegmentCount_Ascending(fileA, fileB) ==
  LET lengthA == Len(fileA)
      lengthB == Len(fileB)
      segmentLengthA == countSegments(fileA)
      segmentLengthB == countSegments(fileB)
  IN  IF lengthA > lengthB THEN 1
      ELSE IF lengthA < lengthB THEN -1
      ELSE IF segmentLengthA > segmentLengthB THEN 1
      ELSE IF segmentLengthA < segmentLengthB THEN -1
      ELSE 0

sortFilesBySegmentCount(fileA, fileB) ==
  LET lengthA == Len(fileA)
      lengthB == Len(fileB)
      segmentLengthA == countSegments(fileA)
      segmentLengthB == countSegments(fileB)
  IN  IF lengthA > lengthB THEN -1
      ELSE IF lengthA < lengthB THEN 1
      ELSE IF segmentLengthA > segmentLengthB THEN 1
      ELSE IF segmentLengthA < segmentLengthB THEN -1
      ELSE 0

Front(s) == SubSeq(s, 1, Len(s) - 1)

RECURSIVE Insert(_, _)
\* x put after the elements that do not compare greater than it
Insert(sorted, x) ==
  IF sorted = <<>> THEN <<x>>
  ELSE IF sortFilesBySegmentCount(sorted[Len(sorted)], x) > 0
       THEN Append(Insert(Front(sorted), x), sorted[Len(sorted)])
       ELSE Append(sorted, x)

RECURSIVE SortFrom(_, _, _)
SortFrom(fs, i, sorted) ==
  IF i > Len(fs) THEN sorted ELSE SortFrom(fs, i + 1, Insert(sorted, fs[i]))

\* files.sort(sortFilesBySegmentCount): a stable sort (the insertion sort V8
\* runs on short arrays, and the order any stable sort gives)
Sort(fs) == SortFrom(fs, 1, <<>>)

----------------------------------------------------------------------------
\* detectApiRoutes

\* any file in a directory taken as a file of the api directory
StartsWithApi_AnyRoot(file) == Len(file) >= 2

\* file.startsWith('api/')
StartsWithApi(file) == Len(file) >= 2 /\ file[1] = Api

\* the error returned together with the routes made so far
ReturnError_Partial(routes, made, error) ==
  [defaultRoutes |-> routes,
   compiled |-> made,
   result |-> [defaultRoutes |-> Some(routes), error |-> Some(error)]]

\* the two `return { defaultRoutes: null, error: {...} }`, with the local
\* list of routes as it is at the return
ReturnError(routes, made, error) ==
  [defaultRoutes |-> routes,
   compiled |-> made,
   result |-> [defaultRoutes |-> Null, error |-> Some(error)]]

\* pathOccurrences(file, sortedFiles).filter(name => name !== file)
occurrences(file, sortedFiles) ==
  LET NotFile(name) == name # file
  IN  SelectSeq(pathOccurrences(file, sortedFiles), NotFile)

RECURSIVE Loop(_, _, _, _)
\* the for loop over sortedFiles from position i, and the return after it;
\* `made` is the file of each route of `routes`
Loop(sortedFiles, i, routes, made) ==
  IF i > Len(sortedFiles)
  THEN [defaultRoutes |-> routes,
        compiled |-> made,
        result |-> [defaultRoutes |-> Some(routes), error |-> Null]]
  ELSE LET file == sortedFiles[i]
           conflictingSegment == getConflictingSegment(file)
           found == occurrences(file, sortedFiles)
       IN  IF ~StartsWithApi(file)
           THEN Loop(sortedFiles, i + 1, routes, made)
           ELSE IF Truthy(conflictingSegment)
           THEN ReturnError(routes, made,
                            [code |-> "conflicting_path_segment",
                             file |-> file,
                             detail |-> <<conflictingSegment[1]>>])
           ELSE IF Len(found) > 0
           THEN ReturnError(routes, made,
                            [code |-> "conflicting_file_path",
                             file |-> file,
                             detail |-> found])
           ELSE Loop(sortedFiles, i + 1,
                     Append(routes, createRouteFromPath(file)),
                     Append(made, file))

Init ==
  /\ files \in Inputs
  /\ input = files
  /\ pc = "start"
  /\ defaultRoutes = <<>>
  /\ compiled = <<>>
  /\ result = [defaultRoutes |-> Null, error |-> Null]

\* if (!files || files.length === 0) return { defaultRoutes: null, error: null }
ReturnEmpty ==
  /\ pc = "start"
  /\ files = <<>>
  /\ result' = [defaultRoutes |-> Null, error |-> Null]
  /\ pc' = "done"
  /\ UNCHANGED <<files, defaultRoutes, input, compiled>>

\* the call on a non-empty array: the array is sorted in place, the loop runs
\* to its first return or to its end
Compile ==
  /\ pc = "start"
  /\ files # <<>>
  /\ LET sortedFiles == Sort(files)
         end == Loop(sortedFiles, 1, <<>>, <<>>)
     IN  /\ files' = sortedFiles
         /\ defaultRoutes' = end.defaultRoutes
         /\ compiled' = end.compiled
         /\ result' = end.result
  /\ pc' = "done"
  /\ UNCHANGED input

Next ==
  \/ ReturnEmpty
  \/ Compile

Spec == Init /\ [][Next]_vars

----------------------------------------------------------------------------
\* The vocabulary of the properties: Literal and Placeholder segments, the
\* canonical shape and the partial structural match, as the specification
\* of the compiler words them.

Done == pc = "done"

Succeeded == Done /\ result.error = Null /\ result.defaultRoutes # Null

Failed == Done /\ result.error # Null /\ result.defaultRoutes = Null

\* a segment is a Placeholder iff its extension-stripped text starts with
\* "[" and ends with "]"
IsPlaceholder(segment) ==
  LET text == ParseName(segment)
  IN  Len(text) >= 2 /\ text[1] = "[" /\ text[Len(text)] = "]"

\* the text between the brackets
PlaceholderName(segment) ==
  LET text == ParseName(segment) IN SubSeq(text, 2, Len(text) - 1)

\* the names of the Placeholder segments of a path, from the left
PlaceholderNames(path) ==
  LET IsP(segment) == IsPlaceholder(segment)
      ps == SelectSeq(path, IsP)
  IN  [i \in 1..Len(ps) |-> PlaceholderName(ps[i])]

\* a candidate rooted at the reserved directory: its first segment is "api"
\* and it has more segments
RootedAtApi(path) == Len(path) >= 2 /\ path[1] = <<"a", "p", "i">>

ApiFiles == { files[i] : i \in { j \in 1..Len(files) : RootedAtApi(files[j]) } }

\* the placeholder segment itself cannot be the text of a Literal
Marker == <<"[", "]">>

CanonicalShape(path) ==
  [i \in 1..Len(path) |->
     IF IsPlaceholder(path[i]) THEN Marker
     ELSE IF i = Len(path) THEN ParseName(path[i])
     ELSE path[i]]

Min(a, b) == IF a < b THEN a ELSE b

SameSegment(a, b) ==
  \/ ~IsPlaceholder(a) /\ ~IsPlaceholder(b) /\ a = b
  \/ IsPlaceholder(a) /\ IsPlaceholder(b) /\ PlaceholderName(a) = PlaceholderName(b)

PartialStructuralMatch(a, b) ==
  \E k \in 1..Min(Len(a), Len(b)) :
     /\ IsPlaceholder(a[k]) /\ IsPlaceholder(b[k])
     /\ PlaceholderName(a[k]) # PlaceholderName(b[k])
     /\ \A m \in 1..(k - 1) : SameSegment(a[m], b[m])

\* the code finds a conflict on some candidate of the array
ConflictDetected ==
  \E i \in 1..Len(files) :
     /\ StartsWithApi(files[i])
     /\ \/ Truthy(getConflictingSegment(files[i]))
        \/ Len(occurrences(files[i], files)) > 0

----------------------------------------------------------------------------
\* C1 as stated: every call returns either a rule list with no error or an
\* error with no rule list, and a detected conflict gives the error and no
\* rules.  The call on the empty list returns neither.
C1_EitherRoutesOrError ==
  Done =>
    /\ (result.defaultRoutes # Null) # (result.error # Null)
    /\ (ConflictDetected => Failed)

\* C1, amended: a call never returns both a rule list and an error; on a
\* non-empty input list it returns exactly one of the two (on the empty list
\* neither); whenever a conflict is detected on a candidate the result
\* carries the error and no rules, whatever was synthesized before.
C1_NeverBoth ==
  Done =>
    /\ ~(result.defaultRoutes # Null /\ result.error # Null)
    /\ (input # <<>> => (result.defaultRoutes # Null) # (result.error # Null))
    /\ (input = <<>> => result.defaultRoutes = Null /\ result.error = Null)
    /\ (ConflictDetected => Failed)

\* a conflict found after a rule for an earlier candidate had been made
C1_Witness == Failed /\ Len(defaultRoutes) > 0

----------------------------------------------------------------------------
\* C2: an input in which a candidate under api/ has two Placeholder segments
\* of the same name is answered with a Conflict Error and no rule list.
C2_RepeatedNameFails ==
  Done =>
    ((\E f \in ApiFiles :
        \E i, j \in 1..Len(f) :
           /\ i < j
           /\ IsPlaceholder(f[i]) /\ IsPlaceholder(f[j])
           /\ PlaceholderName(f[i]) = PlaceholderName(f[j]))
     => Failed)

----------------------------------------------------------------------------
\* C3: when the compilation succeeds, no two distinct candidates under api/
\* have the same canonical shape and no two are a partial structural match.
C3_NoCrossConflictOnSuccess ==
  Succeeded =>
    \A a, b \in ApiFiles :
       a # b =>
         /\ CanonicalShape(a) # CanonicalShape(b)
         /\ ~PartialStructuralMatch(a, b)

----------------------------------------------------------------------------
\* the pair C4 is about: same depth, the same segments but the last, a
\* Literal last segment in l and a Placeholder last segment in p
LiteralPlaceholderPair(l, p) ==
  /\ RootedAtApi(l) /\ RootedAtApi(p)
  /\ Len(l) = Len(p)
  /\ \A i \in 1..(Len(l) - 1) : l[i] = p[i]
  /\ ~IsPlaceholder(l[Len(l)])
  /\ IsPlaceholder(p[Len(p)])

\* C4: compiling such a pair succeeds with two rules, the rule of the
\* literal path first.
C4_LiteralBeforePlaceholder ==
  (Done /\ Len(input) = 2) =>
    \A i, j \in 1..2 :
       LiteralPlaceholderPair(input[i], input[j])
       => /\ Succeeded
          /\ Len(result.defaultRoutes[1]) = 2
          /\ compiled = <<input[i], input[j]>>

----------------------------------------------------------------------------
\* C5: the rules of a successful list are in non-increasing order of the
\* number of segments of their paths, and the list is in the order the sort
\* gave the array.
C5_DeeperFirst ==
  Succeeded =>
    /\ Len(result.defaultRoutes[1]) = Len(compiled)
    /\ \A i \in 1..Len(compiled) :
          result.defaultRoutes[1][i] = createRouteFromPath(compiled[i])
    /\ \A i, j \in 1..Len(compiled) :
          i < j => Len(compiled[i]) >= Len(compiled[j])
    /\ compiled = SelectSeq(files, RootedAtApi)
    /\ \A i, j \in 1..Len(files) : i < j => Len(files[i]) >= Len(files[j])

\* the sort moved a deeper path in front of a shallower one
C5_Witness ==
  /\ Succeeded
  /\ Len(compiled) = 2
  /\ Len(compiled[1]) > Len(compiled[2])
  /\ input = <<compiled[2], compiled[1]>>

----------------------------------------------------------------------------
\* C6: in a successful list, among rules of paths with the same number of
\* segments, a rule of a path with fewer Placeholder segments precedes a
\* rule of a path with more.
C6_FewerPlaceholdersFirst ==
  Succeeded =>
    \A i, j \in 1..Len(compiled) :
       (/\ Len(compiled[i]) = Len(compiled[j])
        /\ Len(PlaceholderNames(compiled[i])) < Len(PlaceholderNames(compiled[j])))
       => i < j

----------------------------------------------------------------------------
\* the destination the claim describes: "/" and the path, then, with at
\* least one Placeholder, "?" and the name=$N entries joined by "&", then
\* `sep`, then the append reference
DestinationWith(path, sep) ==
  LET names == PlaceholderNames(path)
      k == Len(names)
      entries == [i \in 1..k |-> names[i] \o <<"=", "$">> \o NumberText(i)]
  IN  <<"/">> \o Join(path, <<"/">>)
        \o (IF k >= 1 THEN <<"?">> \o Join(entries, <<"&">>) \o sep ELSE <<>>)
        \o <<"$">> \o NumberText(k + 1)

\* C7 as stated: the append reference follows the last query entry with no
\* separator.
C7_DestWithoutSeparator ==
  \A i \in 1..Len(defaultRoutes) :
     defaultRoutes[i].dest = DestinationWith(compiled[i], <<>>)

\* C7, amended: the destination is "/" and the original path, then, if the
\* path has a Placeholder, "?", the name=$N entries joined by "&" and one
\* more "&", then the append reference (api/users/[id].js gives
\* /api/users/[id].js?id=$1&$2, api/users.js gives /api/users.js$1).
C7_DestWithSeparator ==
  \A i \in 1..Len(defaultRoutes) :
     defaultRoutes[i].dest = DestinationWith(compiled[i], <<"&">>)

\* a rule for a path with two Placeholders
C7_Witness ==
  \E i \in 1..Len(defaultRoutes) :
     /\ Len(PlaceholderNames(compiled[i])) >= 2
     /\ defaultRoutes[i].dest = DestinationWith(compiled[i], <<"&">>)

----------------------------------------------------------------------------
NoApiCandidate == \A i \in 1..Len(input) : ~RootedAtApi(input[i])

\* C8 as stated: with no candidate under api/, the empty input list
\* included, the call returns an empty rule list and no error.
C8_EmptyRuleList ==
  (Done /\ NoApiCandidate) =>
    result = [defaultRoutes |-> Some(<<>>), error |-> Null]

\* C8, amended: with a non-empty input list and no candidate under api/ the
\* call returns an empty rule list and no error; for the empty input list it
\* returns no rule list (null) and no error.
C8_EmptyRuleListOrNull ==
  (Done /\ NoApiCandidate) =>
    /\ (input # <<>> => result = [defaultRoutes |-> Some(<<>>), error |-> Null])
    /\ (input = <<>> => result = [defaultRoutes |-> Null, error |-> Null])

\* a call on files that are all outside api/
C8_Witness ==
  /\ Done
  /\ NoApiCandidate
  /\ Len(input) >= 2
  /\ result = [defaultRoutes |-> Some(<<>>), error |-> Null]

----------------------------------------------------------------------------
\* the places of the capturing groups of a pattern: a "(" that is neither
\* escaped nor the start of "(?"
Groups(src) ==
  { i \in 1..Len(src) :
      /\ src[i] = "("
      /\ (i = 1 \/ src[i - 1] # "\\")
      /\ (i = Len(src) \/ src[i + 1] # "?") }

\* the places of the "/" that separate the fragments of a pattern
Separators(src) ==
  { i \in 1..Len(src) : src[i] = "/" /\ (i = 1 \/ src[i - 1] # "\\") }

\* the places where a destination refers to group n
RefsTo(dest, n) ==
  { i \in 1..(Len(dest) - 1) :
      /\ dest[i] = "$"
      /\ SubSeq(dest, i + 1, Min(Len(dest), i + Len(NumberText(n)))) = NumberText(n)
      /\ (i + Len(NumberText(n)) = Len(dest)
          \/ dest[i + Len(NumberText(n)) + 1] \notin
               {"0", "1", "2", "3", "4", "5", "6", "7", "8", "9"}) }

RuleWellFormed(path, rule) ==
  LET names == PlaceholderNames(path)
      k == Len(names)
      src == rule.src
      dest == rule.dest
  IN  /\ SubSeq(src, 1, 2) = <<"^", "/">>
      /\ src[Len(src)] = "$"
      /\ Cardinality(Separators(src)) = Len(path)
      /\ Cardinality(Groups(src)) = k + 1
      /\ SubSeq(src, Max(Groups(src)), Max(Groups(src)) + 3) = <<"(", ".", "*", ")">>
      /\ Cardinality({ i \in 1..Len(dest) : dest[i] = "$" }) = k + 1
      /\ \A n \in 1..(k + 1) : Cardinality(RefsTo(dest, n)) = 1
      /\ \A n \in 1..k :
            LET at == CHOOSE i \in RefsTo(dest, n) : TRUE
                entry == names[n] \o <<"=">>
            IN  /\ at > Len(entry) + 1
                /\ SubSeq(dest, at - Len(entry), at - 1) = entry
                /\ dest[at - Len(entry) - 1] \in {"?", "&"}
                /\ \A m \in 1..(n - 1) : (CHOOSE i \in RefsTo(dest, m) : TRUE) < at
      /\ RefsTo(dest, k + 1) = {Len(dest) - Len(NumberText(k + 1))}

\* C9: the pattern of a rule is anchored, has one fragment per segment and
\* k + 1 capturing groups for a path with k Placeholders, the last of them
\* the append group; the destination refers to $1..$(k+1) once each, the
\* i-th Placeholder from the left bound to $i and the append reference
\* $(k+1).
C9_GroupsAndReferences ==
  \A i \in 1..Len(defaultRoutes) : RuleWellFormed(compiled[i], defaultRoutes[i])

----------------------------------------------------------------------------
\* pathOccurrences(a, fs) reports b
Reports(a, b, fs) ==
  LET found == pathOccurrences(a, fs)
  IN  \E i \in 1..Len(found) : found[i] = b

\* C10: for two distinct candidates A and B, pathOccurrences reports B for
\* A iff it reports A for B, whichever is longer and whichever comes first.
C10_Symmetric ==
  \A i, j \in 1..Len(files) :
     (i < j /\ files[i] # files[j]) =>
       (Reports(files[i], files[j], files) <=> Reports(files[j], files[i], files))

\* a conflict reported between two paths of different depth
C10_Witness ==
  /\ Failed
  /\ result.error[1].code = "conflicting_file_path"
  /\ \E i \in 1..Len(result.error[1].detail) :
        /\ Len(result.error[1].detail[i]) # Len(result.error[1].file)
        /\ Reports(result.error[1].detail[i], result.error[1].file, files)

====
